---- MODULE Spec2Model ----
(***************************************************************************)
(* GLSLConverter (src/Compiler/Backend/GLSL/GLSLConverter.cpp): the pass   *)
(* that rewrites a resolved HLSL AST in place for a GLSL target.           *)
(*                                                                         *)
(* The recursive visitor is a state machine: `stack` is the chain of       *)
(* Visit* calls that are inside their "Default visitor" call, each frame   *)
(* holding the kind of the node being visited.  The AST is laid out as the *)
(* traversal reaches it: a handler draws, with \E, exactly the fields of   *)
(* its node that its code reads, at the point where the code reads them.   *)
(***************************************************************************)
EXTENDS Naturals, Integers, Sequences, FiniteSets, TLC

VARIABLES
    pc,                  \* "idle" | "program" | "visit" | "done" | "error"
    program,             \* the Program handed to Convert (entryPointRef's semantics)
    shaderTarget,        \* shaderTarget_
    nameManglingPrefix,  \* nameManglingPrefix_
    structDeclLevel,     \* structDeclLevel_
    isInsideEntryPoint,  \* isInsideEntryPoint_
    reservedVarIdents,   \* reservedVarIdents_ (a vector: push_back keeps duplicates)
    stack,               \* the Visit* calls in progress, outermost first
    last,                \* the node the last handler ran on, before and after
    calls                \* Convert calls made on this converter

vars == << pc, program, shaderTarget, nameManglingPrefix, structDeclLevel,
           isInsideEntryPoint, reservedVarIdents, stack, last, calls >>

context == << shaderTarget, nameManglingPrefix, structDeclLevel,
              isInsideEntryPoint, reservedVarIdents >>

(***************************************************************************)
(* Bounds of the model.                                                    *)
(***************************************************************************)
MaxSemantics == 1   \* input (and output) semantic variables of the entry point
MaxArgs == 2        \* arguments of a call, parameters of a function
MaxDepth == 4       \* nested Visit* calls
MaxChain == 3       \* segments of a VarIdent chain
MaxCalls == 2       \* Convert calls on one converter

SeqsUpTo(S, n) == UNION { [1..k -> S] : k \in 0..n }

Range(s) == { s[i] : i \in 1..Len(s) }

(***************************************************************************)
(* The data the pass reads.                                                *)
(***************************************************************************)
Idents == { "pos", "col" }
InputIdents == { "pos" }    \* identifiers of the entry point's input semantics
OutputIdents == { "col" }   \* identifiers of the entry point's output semantics
Prefixes == { "", "xsc_" }
ShaderTargets == { "VertexShader", "FragmentShader" }
DataTypes == { "Int", "UInt", "Float" }
Intrinsics == { "Undefined", "Saturate", "Clamp" }
BodyKinds == { "ReturnStmnt", "ExprStmnt", "CodeBlockStmnt" }

BaseTypeDenoter(dataType) == [ den |-> "Base", dataType |-> dataType ]
StructTypeDenoter == [ den |-> "Struct", dataType |-> "Undefined" ]
SamplerTypeDenoter == [ den |-> "Sampler", dataType |-> "Undefined" ]
TypeDenoters ==
    { BaseTypeDenoter(d) : d \in DataTypes } \cup { StructTypeDenoter, SamplerTypeDenoter }

IsBase(typeDen) == typeDen.den = "Base"
IsSampler(typeDen) == typeDen.den = "Sampler"

\* An expression node: its kind, its type denoter, a literal's spelling, and the
\* sub-expression a cast owns.  kind "Expr" is an expression whose own fields the
\* parent's handler does not read (they are drawn when the node is visited).
MkExpr(kind, typeDen, value, sub) ==
    [ kind |-> kind, typeDenoter |-> typeDen, value |-> value, expr |-> sub ]
Expr(typeDen) == MkExpr("Expr", typeDen, "", << >>)
Exprs == { Expr(t) : t \in TypeDenoters }

\* ASTFactory::MakeLiteralCastExpr(typeDen, literalType, literalValue)
MakeLiteralCastExpr(typeDen, literalType, literalValue) ==
    MkExpr("CastExpr", typeDen, "",
           << MkExpr("LiteralExpr", BaseTypeDenoter(literalType), literalValue, << >>) >>)

\* ASTFactory::MakeBaseTypeCastExpr(dataType, expr)
MakeBaseTypeCastExpr(dataType, expr) ==
    MkExpr("CastExpr", BaseTypeDenoter(dataType), "", << expr >>)

\* EraseIf(container, pred): remove_if + erase, which keeps the order of the rest;
\* pred is given as the set of elements the predicate holds of
EraseIf(container, pred) == SelectSeq(container, LAMBDA x : x \notin pred)

\* A statement as a loop or conditional body.  A CodeBlockStmnt with codeBlock = << >>
\* is a block whose statements are drawn when they are visited.
MkStmnt(kind, stmnts) == [ kind |-> kind, codeBlock |-> stmnts ]

(***************************************************************************)
(* Frames of the traversal.                                                *)
(***************************************************************************)
\* kind: the node's kind ("Stmnt" for the five loop and conditional statements);
\* isEntryPoint: a FunctionDecl's flag; open: a loop or conditional whose body is a
\* block of statements, a VarAccessExpr whose varIdent is still to visit
Frame(kind, isEntryPoint, open) ==
    [ kind |-> kind, isEntryPoint |-> isEntryPoint, open |-> open ]

Top == stack[Len(stack)]
Pop == SubSeq(stack, 1, Len(stack) - 1)
Push(s, f) == Append(s, f)

LoopKinds == { "ForLoopStmnt", "WhileLoopStmnt", "DoWhileLoopStmnt", "IfStmnt", "ElseStmnt" }
ExprFrames == { "FunctionCall", "BinaryExpr", "VarAccessExpr", "VarDecl" }

\* A handler has returned to the visitor, which dispatches on the next node
Visiting == pc = "visit" /\ stack # << >> /\ last.op = "none"

\* The top frame's node owns a statement list that is visited next
InStmntList ==
    /\ Visiting
    /\ \/ Top.kind = "FunctionDecl"
       \/ Top.kind = "Stmnt" /\ Top.open

\* A declaration (VarDeclStmnt, StructDecl) may be visited next
InDeclList == Visiting /\ (Top.kind \in { "Program", "StructDecl" } \/ InStmntList)

\* An expression may be visited next: a statement's or a loop header's, an
\* initializer, an argument, an operand, an assignment's right-hand side
InExpr ==
    /\ Visiting
    /\ Top.kind \in { "FunctionDecl", "Stmnt" } \cup ExprFrames
    /\ Top.kind = "VarAccessExpr" => ~Top.open
    /\ Len(stack) < MaxDepth

\* What a handler did: its node before and after, and what it threw ("" if nothing)
Threw(op, before, after, what) ==
    [ op |-> op, before |-> before, after |-> after, what |-> what ]
Done(op, before, after) == Threw(op, before, after, "")

(***************************************************************************)
(* Helper functions for conversion (GLSLConverter.cpp 298-440).            *)
(***************************************************************************)
PushStructDeclLevel == structDeclLevel + 1

\* PopStructDeclLevel without its decrement
PopStructDeclLevelKept == structDeclLevel

PopStructDeclLevel == structDeclLevel - 1

IsInsideStructDecl == structDeclLevel > 0

\* ExprContainsSampler testing for "not a base type" instead of "sampler"
ExprContainsSamplerOrStruct(ast) == ~IsBase(ast.typeDenoter)

ExprContainsSampler(ast) == IsSampler(ast.typeDenoter)

VarTypeIsSampler(varType) == IsSampler(varType)

\* MustResolveStructForTarget (GLSLHelper): a pure predicate of target and struct
MustResolveStructForTarget(target, structDecl) ==
    \/ target = "VertexShader" /\ structDecl.isShaderInput
    \/ target = "FragmentShader" /\ structDecl.isShaderOutput

MustResolveStruct(structDecl) == MustResolveStructForTarget(shaderTarget, structDecl)

\* MustRenameVarDecl without the IsInsideStructDecl test
MustRenameVarDeclInStructToo(ast) ==
    /\ ~ast.isShaderInput
    /\ \E i \in 1..Len(reservedVarIdents) : reservedVarIdents[i] = ast.ident

MustRenameVarDecl(ast) ==
    /\ ~IsInsideStructDecl
    /\ ~ast.isShaderInput
    /\ \E i \in 1..Len(reservedVarIdents) : reservedVarIdents[i] = ast.ident

RenameVarDecl(ast) == [ ast EXCEPT !.ident = nameManglingPrefix \o ast.ident ]

RegisterReservedVarIdents(reserved, varDecls) == reserved \o varDecls

\* MustCastExprToDataType without its "cast to int" branch
MustCastExprToDataTypeUIntOnly(targetTypeDen, sourceTypeDen) ==
    IF /\ targetTypeDen.den = "Base" /\ sourceTypeDen.den = "Base"
       /\ targetTypeDen.dataType = "UInt" /\ sourceTypeDen.dataType = "Int"
    THEN "UInt"
    ELSE "nullptr"

\* The data type to cast to, or "nullptr"
MustCastExprToDataType(targetTypeDen, sourceTypeDen) ==
    IF targetTypeDen.den = "Base" /\ sourceTypeDen.den = "Base"
    THEN IF targetTypeDen.dataType = "UInt"
         THEN (IF sourceTypeDen.dataType = "Int" THEN "UInt" ELSE "nullptr")
         ELSE IF targetTypeDen.dataType = "Int"
         THEN (IF sourceTypeDen.dataType = "UInt" THEN "Int" ELSE "nullptr")
         ELSE "nullptr"
    ELSE "nullptr"

ConvertExprIfCastRequired(expr, targetTypeDen) ==
    LET dataType == MustCastExprToDataType(targetTypeDen, expr.typeDenoter)
    IN  IF dataType # "nullptr" THEN MakeBaseTypeCastExpr(dataType, expr) ELSE expr

\* MakeCodeBlockInEntryPointReturnStmnt without the isInsideEntryPoint_ test
MakeCodeBlockInAnyReturnStmnt(bodyStmnt) ==
    IF bodyStmnt.kind = "ReturnStmnt"
    THEN MkStmnt("CodeBlockStmnt", << bodyStmnt >>)
    ELSE bodyStmnt

MakeCodeBlockInEntryPointReturnStmnt(bodyStmnt) ==
    IF isInsideEntryPoint /\ bodyStmnt.kind = "ReturnStmnt"
    THEN MkStmnt("CodeBlockStmnt", << bodyStmnt >>)
    ELSE bodyStmnt

(***************************************************************************)
(* VarIdent chains.  A chain is the sequence of its segments; the node at  *)
(* position i is the i-th VarIdent object reached through `next`.          *)
(***************************************************************************)
SymbolRefs == { "nullptr", "VarDecl", "VarDeclSV" }   \* SV: flagged isSystemValue

Segments(n) == { c \in [1..n -> [ ident : 1..n, symbolRef : SymbolRefs ]] :
                   \A i \in 1..n : c[i].ident = i }

\* VarIdent::PopFront on the node at position i: it takes over the fields of its
\* next segment (ident, next, symbolRef); without a next segment it does nothing
PopFront(chain, i) ==
    IF i < Len(chain)
    THEN SubSeq(chain, 1, i - 1) \o SubSeq(chain, i + 1, Len(chain))
    ELSE chain

HasVarDeclOfVarIdentSystemSemantic(varIdent) == varIdent.symbolRef = "VarDeclSV"

\* The inner loop (372-376): root->PopFront(); root = root->next.get();
RECURSIVE RemoveLeading(_, _)
RemoveLeading(chain, root) ==
    IF root <= Len(chain) /\ ~HasVarDeclOfVarIdentSystemSemantic(chain[root])
    THEN RemoveLeading(PopFront(chain, root), root + 1)
    ELSE chain

\* The outer loop (363-384), with ast at position `ast`
RECURSIVE SearchSystemSemantic(_, _)
SearchSystemSemantic(chain, ast) ==
    IF ast > Len(chain) THEN chain
    ELSE IF HasVarDeclOfVarIdentSystemSemantic(chain[ast]) THEN RemoveLeading(chain, 1)
    ELSE SearchSystemSemantic(chain, ast + 1)

MakeVarIdentWithSystemSemanticLocal(chain) == SearchSystemSemantic(chain, 1)

(***************************************************************************)
(* Convert and the Program.                                                *)
(***************************************************************************)
Programs ==
    [ inputSemantics : SeqsUpTo(InputIdents, MaxSemantics),
      outputSemantics : SeqsUpTo(OutputIdents, MaxSemantics),
      entryPointVisited : { FALSE } ]

\* Convert: store the settings, then Visit(&program)
ConvertCall(target, prefix, prog) ==
    /\ shaderTarget' = target
    /\ nameManglingPrefix' = prefix
    /\ program' = prog
    /\ pc' = "program"
    /\ stack' = << >>
    /\ calls' = calls + 1
    /\ last' = Done("Convert", << >>, << >>)
    /\ UNCHANGED << structDeclLevel, isInsideEntryPoint, reservedVarIdents >>

\* The first Convert call on a converter
Convert ==
    /\ pc = "idle"
    /\ \E target \in ShaderTargets, prefix \in Prefixes, prog \in Programs :
          ConvertCall(target, prefix, prog)

\* A further Convert call on the same converter, after a pass that returned or threw
ConvertAgain ==
    /\ pc \in { "done", "error" }
    /\ calls < MaxCalls
    /\ \E target \in ShaderTargets, prefix \in Prefixes, prog \in Programs :
          ConvertCall(target, prefix, prog)

VisitProgram ==
    /\ pc = "program"
    /\ reservedVarIdents' =
          RegisterReservedVarIdents(
              RegisterReservedVarIdents(reservedVarIdents, program.inputSemantics),
              program.outputSemantics)
    /\ stack' = << Frame("Program", FALSE, FALSE) >>
    /\ pc' = "visit"
    /\ last' = Done("Program", << >>, << >>)
    /\ UNCHANGED << program, shaderTarget, nameManglingPrefix, structDeclLevel,
                    isInsideEntryPoint, calls >>

\* Visitor::VisitProgram returns, and with it Visit(&program) and Convert
ExitProgram ==
    /\ Visiting
    /\ Top.kind = "Program"
    /\ stack' = << >>
    /\ pc' = "done"
    /\ last' = last
    /\ UNCHANGED << program, calls, context >>

(***************************************************************************)
(* Declarations.                                                           *)
(***************************************************************************)
VisitStructDecl ==
    /\ InDeclList
    /\ Len(stack) < MaxDepth
    /\ structDeclLevel' = PushStructDeclLevel
    /\ stack' = Push(stack, Frame("StructDecl", FALSE, FALSE))
    /\ last' = Done("StructDecl", << >>, << >>)
    /\ UNCHANGED << pc, program, calls, shaderTarget, nameManglingPrefix,
                    isInsideEntryPoint, reservedVarIdents >>

ExitStructDecl ==
    /\ Visiting
    /\ Top.kind = "StructDecl"
    /\ structDeclLevel' = PopStructDeclLevel
    /\ stack' = Pop
    /\ last' = last
    /\ UNCHANGED << pc, program, calls, shaderTarget, nameManglingPrefix,
                    isInsideEntryPoint, reservedVarIdents >>

VarDecls ==
    [ ident : Idents, isShaderInput : BOOLEAN, typeDenoter : TypeDenoters,
      initializer : SeqsUpTo(Exprs, 1) ]

\* VisitVarDecl up to its default visitor (129-137)
VarDeclRewritten(ast) ==
    LET renamed == IF MustRenameVarDecl(ast) THEN RenameVarDecl(ast) ELSE ast
    IN  IF renamed.initializer # << >>
        THEN [ renamed EXCEPT !.initializer =
                 << ConvertExprIfCastRequired(renamed.initializer[1], renamed.typeDenoter) >> ]
        ELSE renamed

VisitVarDecl ==
    /\ InDeclList
    /\ \E ast \in VarDecls :
          LET out == VarDeclRewritten(ast)
          IN  /\ out.initializer # << >> => Len(stack) < MaxDepth
              /\ stack' = IF out.initializer # << >>
                          THEN Push(stack, Frame("VarDecl", FALSE, FALSE))
                          ELSE stack
              /\ last' = Done("VarDecl", ast, out)
    /\ UNCHANGED << pc, program, calls, context >>

ExitVarDecl ==
    /\ Visiting
    /\ Top.kind = "VarDecl"
    /\ stack' = Pop
    /\ last' = last
    /\ UNCHANGED << pc, program, calls, context >>

\* The analyzer marks the entry point reachable
FunctionDecls ==
    { f \in [ isReachable : BOOLEAN, isEntryPoint : BOOLEAN,
              parameters : SeqsUpTo(TypeDenoters, MaxArgs) ] :
        f.isEntryPoint => f.isReachable }

VisitFunctionDecl ==
    /\ Visiting
    /\ Top.kind = "Program"
    /\ \E ast \in FunctionDecls :
          /\ ast.isEntryPoint => ~program.entryPointVisited
          /\ IF ~ast.isReachable
             THEN /\ last' = Done("FunctionDecl", ast, ast)
                  /\ UNCHANGED << stack, isInsideEntryPoint, program >>
             ELSE LET out == [ ast EXCEPT !.parameters = EraseIf(@, { p \in Range(@) : VarTypeIsSampler(p) }) ]
                  IN  /\ Len(stack) < MaxDepth
                      /\ isInsideEntryPoint' =
                            IF ast.isEntryPoint THEN TRUE ELSE isInsideEntryPoint
                      /\ program' = [ program EXCEPT !.entryPointVisited =
                                        @ \/ ast.isEntryPoint ]
                      /\ stack' = Push(stack, Frame("FunctionDecl", ast.isEntryPoint, FALSE))
                      /\ last' = Done("FunctionDecl", ast, out)
    /\ UNCHANGED << pc, calls, shaderTarget, nameManglingPrefix, structDeclLevel,
                    reservedVarIdents >>

ExitFunctionDecl ==
    /\ Visiting
    /\ Top.kind = "FunctionDecl"
    /\ isInsideEntryPoint' = IF Top.isEntryPoint THEN FALSE ELSE isInsideEntryPoint
    /\ stack' = Pop
    /\ last' = last
    /\ UNCHANGED << pc, program, calls, shaderTarget, nameManglingPrefix,
                    structDeclLevel, reservedVarIdents >>

(***************************************************************************)
(* Statements.                                                             *)
(***************************************************************************)
BodyStmnts == { MkStmnt(k, << >>) : k \in BodyKinds }

\* The five handlers (178-221) have one body: wrap the body statement, then the
\* default visitor
VisitLoopOrConditional(kind) ==
    /\ InStmntList
    /\ Len(stack) < MaxDepth
    /\ \E bodyStmnt \in BodyStmnts :
          LET out == MakeCodeBlockInEntryPointReturnStmnt(bodyStmnt)
          IN  /\ stack' = Push(stack, Frame("Stmnt", FALSE,
                                           out = MkStmnt("CodeBlockStmnt", << >>)))
              /\ last' = Done(kind, bodyStmnt, out)
    /\ UNCHANGED << pc, program, calls, context >>

VisitForLoopStmnt == VisitLoopOrConditional("ForLoopStmnt")

VisitWhileLoopStmnt == VisitLoopOrConditional("WhileLoopStmnt")

VisitDoWhileLoopStmnt == VisitLoopOrConditional("DoWhileLoopStmnt")

VisitIfStmnt == VisitLoopOrConditional("IfStmnt")

VisitElseStmnt == VisitLoopOrConditional("ElseStmnt")

ExitStmnt ==
    /\ Visiting
    /\ Top.kind = "Stmnt"
    /\ stack' = Pop
    /\ last' = last
    /\ UNCHANGED << pc, program, calls, context >>

(***************************************************************************)
(* Expressions.                                                            *)
(***************************************************************************)
FunctionCalls == [ intrinsic : Intrinsics, arguments : SeqsUpTo(Exprs, MaxArgs) ]

Returned(ast) == [ thrown |-> FALSE, what |-> "", ast |-> ast ]

\* RuntimeErr(msg, ast) throws: the handler and every Visit* call above it end
RuntimeErr(msg, ast) == [ thrown |-> TRUE, what |-> msg, ast |-> ast ]

\* The Saturate branch appending the literals in the order 1, 0
SaturateToClampOneZero(ast) ==
    IF Len(ast.arguments) = 1 /\ IsBase(ast.arguments[1].typeDenoter)
    THEN Returned([ intrinsic |-> "Clamp",
                    arguments |->
                       << ast.arguments[1],
                          MakeLiteralCastExpr(ast.arguments[1].typeDenoter, "Int", "1"),
                          MakeLiteralCastExpr(ast.arguments[1].typeDenoter, "Int", "0") >> ])
    ELSE RuntimeErr("invalid number of arguments in intrinsic 'saturate'", ast)

\* The Saturate branch retagging the call before it has checked the argument
SaturateToClampRetagFirst(ast) ==
    LET clamp == [ ast EXCEPT !.intrinsic = "Clamp" ]
    IN  IF Len(ast.arguments) = 1
        THEN LET argTypeDen == ast.arguments[1].typeDenoter
             IN  IF IsBase(argTypeDen)
                 THEN Returned([ clamp EXCEPT !.arguments =
                                   Append(Append(@, MakeLiteralCastExpr(argTypeDen, "Int", "0")),
                                          MakeLiteralCastExpr(argTypeDen, "Int", "1")) ])
                 ELSE RuntimeErr("invalid argument type denoter in intrinsic 'saturate'", clamp)
        ELSE RuntimeErr("invalid number of arguments in intrinsic 'saturate'", clamp)

\* The Saturate branch of VisitFunctionCall (55-69)
SaturateToClamp(ast) ==
    IF Len(ast.arguments) = 1
    THEN LET argTypeDen == ast.arguments[1].typeDenoter
         IN  IF IsBase(argTypeDen)
             THEN Returned([ intrinsic |-> "Clamp",
                             arguments |->
                                Append(Append(ast.arguments,
                                              MakeLiteralCastExpr(argTypeDen, "Int", "0")),
                                       MakeLiteralCastExpr(argTypeDen, "Int", "1")) ])
             ELSE RuntimeErr("invalid argument type denoter in intrinsic 'saturate'", ast)
    ELSE RuntimeErr("invalid number of arguments in intrinsic 'saturate'", ast)

\* VisitFunctionCall up to its default visitor (53-80)
FunctionCallRewritten(ast) ==
    IF ast.intrinsic = "Saturate" THEN SaturateToClamp(ast)
    ELSE IF ast.intrinsic = "Undefined"
    THEN Returned([ ast EXCEPT !.arguments = EraseIf(@, { a \in Range(@) : ExprContainsSampler(a) }) ])
    ELSE Returned(ast)

VisitFunctionCall ==
    /\ InExpr
    /\ \E ast \in FunctionCalls :
          LET r == FunctionCallRewritten(ast)
          IN  /\ last' = Threw("FunctionCall", ast, r.ast, r.what)
              /\ IF r.thrown
                 THEN pc' = "error" /\ stack' = << >>
                 ELSE pc' = pc /\ stack' = Push(stack, Frame("FunctionCall", FALSE, FALSE))
    /\ UNCHANGED << program, calls, context >>

ExitFunctionCall ==
    /\ Visiting
    /\ Top.kind = "FunctionCall"
    /\ stack' = Pop
    /\ last' = last
    /\ UNCHANGED << pc, program, calls, context >>

\* VisitBinaryExpr starts with the default visitor (259)
VisitBinaryExpr ==
    /\ InExpr
    /\ stack' = Push(stack, Frame("BinaryExpr", FALSE, FALSE))
    /\ last' = Done("EnterBinaryExpr", << >>, << >>)
    /\ UNCHANGED << pc, program, calls, context >>

BinaryExprs == [ lhsExpr : Exprs, rhsExpr : Exprs ]

\* and, the operands visited, converts the right-hand side (262)
ExitBinaryExpr ==
    /\ Visiting
    /\ Top.kind = "BinaryExpr"
    /\ \E ast \in BinaryExprs :
          last' = Done("BinaryExpr", ast,
                       [ ast EXCEPT !.rhsExpr =
                           ConvertExprIfCastRequired(ast.rhsExpr, ast.lhsExpr.typeDenoter) ])
    /\ stack' = Pop
    /\ UNCHANGED << pc, program, calls, context >>

\* VisitVarAccessExpr starts with the default visitor (285): varIdent, then assignExpr
VisitVarAccessExpr ==
    /\ InExpr
    /\ stack' = Push(stack, Frame("VarAccessExpr", FALSE, TRUE))
    /\ last' = Done("EnterVarAccessExpr", << >>, << >>)
    /\ UNCHANGED << pc, program, calls, context >>

VarAccessExprs == [ typeDenoter : TypeDenoters, assignExpr : SeqsUpTo(Exprs, 1) ]

\* and then converts the assignment expression, if there is one (287-291)
ExitVarAccessExpr ==
    /\ Visiting
    /\ Top.kind = "VarAccessExpr"
    /\ ~Top.open
    /\ \E ast \in VarAccessExprs :
          last' = Done("VarAccessExpr", ast,
                       IF ast.assignExpr # << >>
                       THEN [ ast EXCEPT !.assignExpr =
                                << ConvertExprIfCastRequired(ast.assignExpr[1], ast.typeDenoter) >> ]
                       ELSE ast)
    /\ stack' = Pop
    /\ UNCHANGED << pc, program, calls, context >>

\* The head segment's declaration: its declared type and, for a structure type,
\* the structure's flags
StructDecls == [ isShaderInput : BOOLEAN, isShaderOutput : BOOLEAN ]
VarIdents ==
    { v \in [ chain : UNION { Segments(n) : n \in 1..MaxChain },
              varType : { BaseTypeDenoter("Float"), StructTypeDenoter },
              structDeclRef : StructDecls ] :
        v.varType # StructTypeDenoter =>
            v.structDeclRef = [ isShaderInput |-> FALSE, isShaderOutput |-> FALSE ] }

\* VisitVarIdent (96-122); it does not call the default visitor
VarIdentRewritten(ast) ==
    IF /\ Len(ast.chain) > 1
       /\ ast.chain[1].symbolRef # "nullptr"
       /\ ast.varType = StructTypeDenoter
    THEN IF MustResolveStruct(ast.structDeclRef)
         THEN PopFront(ast.chain, 1)
         ELSE MakeVarIdentWithSystemSemanticLocal(ast.chain)
    ELSE ast.chain

VisitVarIdent ==
    /\ Visiting
    /\ Top.kind = "VarAccessExpr"
    /\ Top.open
    /\ \E ast \in VarIdents :
          last' = Done("VarIdent", ast, [ ast EXCEPT !.chain = VarIdentRewritten(ast) ])
    /\ stack' = [ stack EXCEPT ![Len(stack)].open = FALSE ]
    /\ UNCHANGED << pc, program, calls, context >>

(***************************************************************************)
(* The converter.                                                          *)
(***************************************************************************)
\* The handler's own rewriting is over: the visitor goes on (into the node's
\* children, or to the node after it)
NextNode ==
    /\ pc = "visit"
    /\ last.op # "none"
    /\ last' = Done("none", << >>, << >>)
    /\ UNCHANGED << pc, program, stack, calls, context >>

Init ==
    /\ pc = "idle"
    /\ program = [ inputSemantics |-> << >>, outputSemantics |-> << >>,
                   entryPointVisited |-> FALSE ]
    /\ shaderTarget = "VertexShader"
    /\ nameManglingPrefix = ""
    /\ structDeclLevel = 0
    /\ isInsideEntryPoint = FALSE
    /\ reservedVarIdents = << >>
    /\ stack = << >>
    /\ last = Done("none", << >>, << >>)
    /\ calls = 0

Next ==
    \/ Convert
    \/ VisitProgram
    \/ ExitProgram
    \/ VisitStructDecl
    \/ ExitStructDecl
    \/ VisitVarDecl
    \/ ExitVarDecl
    \/ VisitFunctionDecl
    \/ ExitFunctionDecl
    \/ VisitForLoopStmnt
    \/ VisitWhileLoopStmnt
    \/ VisitDoWhileLoopStmnt
    \/ VisitIfStmnt
    \/ VisitElseStmnt
    \/ ExitStmnt
    \/ VisitFunctionCall
    \/ ExitFunctionCall
    \/ VisitBinaryExpr
    \/ ExitBinaryExpr
    \/ VisitVarAccessExpr
    \/ ExitVarAccessExpr
    \/ VisitVarIdent
    \/ NextNode

\* One Convert call on a freshly constructed converter
Spec == Init /\ [][Next]_vars

\* Any number of Convert calls on one converter
NextReuse == Next \/ ConvertAgain

SpecReuse == Init /\ [][NextReuse]_vars

(***************************************************************************)
(* What the claims are stated in: the place of the visited node in the     *)
(* tree, read off the Visit* calls in progress, and the entry point's      *)
(* semantic identifiers, read off the program.                             *)
(***************************************************************************)
StructDeclsOpen == Cardinality({ i \in 1..Len(stack) : stack[i].kind = "StructDecl" })

InsideEntryPointDecl ==
    \E i \in 1..Len(stack) : stack[i].kind = "FunctionDecl" /\ stack[i].isEntryPoint

SemanticIdents == Range(program.inputSemantics) \cup Range(program.outputSemantics)

NonSamplers(list) == SelectSeq(list, LAMBDA x : x.typeDenoter.den # "Sampler")

NonSamplerTypes(list) == SelectSeq(list, LAMBDA t : t.den # "Sampler")

IsPrefixOf(s, t) == Len(s) <= Len(t) /\ SubSeq(t, 1, Len(s)) = s

\* out is src wrapped in a cast to the target's data type exactly for the pairs
\* (uint, int) and (int, uint) of base types, and src itself otherwise
CastRule(targetTypeDen, src, out) ==
    IF /\ targetTypeDen.den = "Base" /\ src.typeDenoter.den = "Base"
       /\ << targetTypeDen.dataType, src.typeDenoter.dataType >>
             \in { << "UInt", "Int" >>, << "Int", "UInt" >> }
    THEN out = [ kind |-> "CastExpr", typeDenoter |-> targetTypeDen, value |-> "",
                 expr |-> << src >> ]
    ELSE out = src

InvalidIntrinsicErrors ==
    { "invalid argument type denoter in intrinsic 'saturate'",
      "invalid number of arguments in intrinsic 'saturate'" }

(***************************************************************************)
(* C1: a call tagged Saturate with exactly one, base-typed argument x is   *)
(* retagged Clamp with arguments [x, T(0), T(1)], T the type of x; with 0  *)
(* or 2+ arguments, or a non-base argument, the pass fails with the        *)
(* invalid-intrinsic error.                                                *)
(***************************************************************************)
C1_SaturateBecomesClamp ==
    (last.op = "FunctionCall" /\ last.before.intrinsic = "Saturate") =>
        IF /\ Len(last.before.arguments) = 1
           /\ last.before.arguments[1].typeDenoter.den = "Base"
        THEN LET x == last.before.arguments[1]
                 Lit(v) == [ kind |-> "CastExpr", typeDenoter |-> x.typeDenoter,
                             value |-> "",
                             expr |-> << [ kind |-> "LiteralExpr",
                                           typeDenoter |-> [ den |-> "Base", dataType |-> "Int" ],
                                           value |-> v, expr |-> << >> ] >> ]
             IN  /\ pc = "visit"
                 /\ last.what = ""
                 /\ last.after.intrinsic = "Clamp"
                 /\ last.after.arguments = << x, Lit("0"), Lit("1") >>
        ELSE /\ pc = "error"
             /\ last.what \in InvalidIntrinsicErrors

C1_Witness ==
    /\ last.op = "FunctionCall"
    /\ last.before.intrinsic = "Saturate"
    /\ last.after.intrinsic = "Clamp"
    /\ Len(last.after.arguments) = 3
    /\ last.before.arguments[1].typeDenoter.dataType = "UInt"

(***************************************************************************)
(* C2: a visited variable declaration ends up named prefix + originalName  *)
(* iff it is outside every structure member list, is not flagged           *)
(* shader-input and its name is one of the entry point's input/output      *)
(* semantic identifiers; otherwise its name is unchanged.  This holds      *)
(* wherever the declaration sits in the program.                           *)
(***************************************************************************)
C2_RenamedIffReserved ==
    last.op = "VarDecl" =>
        last.after.ident =
            IF /\ StructDeclsOpen = 0
               /\ ~last.before.isShaderInput
               /\ last.before.ident \in SemanticIdents
            THEN nameManglingPrefix \o last.before.ident
            ELSE last.before.ident

C2_Witness ==
    /\ last.op = "VarDecl"
    /\ last.before.ident = "col"
    /\ last.after.ident = "xsc_col"
    /\ InsideEntryPointDecl

(***************************************************************************)
(* C3: at the three cast sites (right-hand side of a binary expression     *)
(* against the left operand's type, initializer against the declared type, *)
(* assignment expression against the access's type) the expression is      *)
(* wrapped in a cast to the target type iff both are base types and the    *)
(* pair is (uint, int) or (int, uint); the left operand is never wrapped.  *)
(***************************************************************************)
C3_CastIffIntUIntMismatch ==
    /\ last.op = "BinaryExpr" =>
          /\ CastRule(last.before.lhsExpr.typeDenoter, last.before.rhsExpr, last.after.rhsExpr)
          /\ last.after.lhsExpr = last.before.lhsExpr
    /\ last.op = "VarDecl" =>
          IF last.before.initializer = << >>
          THEN last.after.initializer = << >>
          ELSE /\ Len(last.after.initializer) = 1
               /\ CastRule(last.before.typeDenoter, last.before.initializer[1],
                           last.after.initializer[1])
    /\ last.op = "VarAccessExpr" =>
          IF last.before.assignExpr = << >>
          THEN last.after.assignExpr = << >>
          ELSE /\ Len(last.after.assignExpr) = 1
               /\ CastRule(last.before.typeDenoter, last.before.assignExpr[1],
                           last.after.assignExpr[1])

C3_Witness ==
    /\ last.op = "BinaryExpr"
    /\ last.before.lhsExpr.typeDenoter.dataType = "Int"
    /\ last.before.rhsExpr.typeDenoter.dataType = "UInt"
    /\ last.after.rhsExpr.kind = "CastExpr"
    /\ last.after.rhsExpr.typeDenoter.dataType = "Int"

(***************************************************************************)
(* C4: a for, while, do-while, if or else statement whose body is directly *)
(* a return statement gets a block holding exactly that return as its body *)
(* when it lies inside the entry-point function, and keeps the bare return *)
(* in any other function; a body that is not a return is never wrapped.    *)
(***************************************************************************)
C4_ReturnBodyWrappedInEntryPoint ==
    last.op \in LoopKinds =>
        last.after =
            IF InsideEntryPointDecl /\ last.before.kind = "ReturnStmnt"
            THEN [ kind |-> "CodeBlockStmnt", codeBlock |-> << last.before >> ]
            ELSE last.before

C4_Witness ==
    /\ last.op = "ElseStmnt"
    /\ InsideEntryPointDecl
    /\ last.before.kind = "ReturnStmnt"
    /\ last.after.kind = "CodeBlockStmnt"

(***************************************************************************)
(* C5 as stated: after the pass no call's argument list and no function's  *)
(* parameter list holds a sampler-typed element, a call whose arguments    *)
(* were all samplers has none left, and the other elements keep their      *)
(* relative order.                                                         *)
(***************************************************************************)
C5_NoSamplerLeftAnywhere ==
    /\ (last.op = "FunctionCall" /\ last.what = "") =>
          /\ NonSamplers(last.after.arguments) = last.after.arguments
          /\ IsPrefixOf(NonSamplers(last.before.arguments), last.after.arguments)
    /\ last.op = "FunctionDecl" =>
          last.after.parameters = NonSamplerTypes(last.before.parameters)

(***************************************************************************)
(* C5 amended: the sampler-typed arguments of every visited call tagged    *)
(* Undefined and the sampler-typed parameters of every reachable function  *)
(* are removed, the rest keeping their order (so an all-sampler call ends  *)
(* with zero arguments); a valid Saturate call has no sampler argument; a  *)
(* call with any other intrinsic tag keeps its arguments, and an           *)
(* unreachable function its parameters, samplers included.                 *)
(***************************************************************************)
C5_SamplersStrippedWhereVisited ==
    /\ (last.op = "FunctionCall" /\ last.what = "") =>
          IF last.before.intrinsic = "Undefined"
          THEN last.after.arguments = NonSamplers(last.before.arguments)
          ELSE IF last.before.intrinsic = "Saturate"
          THEN /\ NonSamplers(last.after.arguments) = last.after.arguments
               /\ IsPrefixOf(last.before.arguments, last.after.arguments)
          ELSE last.after = last.before
    /\ last.op = "FunctionDecl" =>
          IF last.before.isReachable
          THEN last.after.parameters = NonSamplerTypes(last.before.parameters)
          ELSE last.after = last.before

C5_Witness ==
    /\ last.op = "FunctionCall"
    /\ last.before.intrinsic = "Undefined"
    /\ Len(last.before.arguments) = 2
    /\ NonSamplers(last.before.arguments) = << >>
    /\ last.after.arguments = << >>

(***************************************************************************)
(* C6: for every prefix, empty or not, no variable declaration outside a   *)
(* structure and not flagged shader-input is left with a name equal to a   *)
(* registered input/output semantic identifier.                            *)
(***************************************************************************)
C6_NoReservedNameLeft ==
    (last.op = "VarDecl" /\ StructDeclsOpen = 0 /\ ~last.before.isShaderInput) =>
        last.after.ident \notin SemanticIdents

(***************************************************************************)
(* C7: every Convert call on a converter, also one after a call that       *)
(* failed, starts with reservedVarIdents empty, structDeclLevel 0 and      *)
(* isInsideEntryPoint false.                                               *)
(***************************************************************************)
C7_EachCallStartsFresh ==
    pc = "program" =>
        /\ reservedVarIdents = << >>
        /\ structDeclLevel = 0
        /\ ~isInsideEntryPoint

(***************************************************************************)
(* C8: for a chain whose head has a next segment and names a struct-typed  *)
(* variable whose struct need not be resolved: if some segment's           *)
(* declaration is a system value, the chain afterwards starts at the first *)
(* such segment and keeps everything after it in order; if none is, the    *)
(* chain is untouched.                                                     *)
(***************************************************************************)
FirstSystemValue(chain) ==
    IF \E i \in 1..Len(chain) : chain[i].symbolRef = "VarDeclSV"
    THEN CHOOSE i \in 1..Len(chain) :
            /\ chain[i].symbolRef = "VarDeclSV"
            /\ \A j \in 1..(i - 1) : chain[j].symbolRef # "VarDeclSV"
    ELSE 0

C8_LeadingSegmentsRemoved ==
    ( /\ last.op = "VarIdent"
      /\ Len(last.before.chain) > 1
      /\ last.before.chain[1].symbolRef # "nullptr"
      /\ last.before.varType.den = "Struct"
      /\ ~MustResolveStructForTarget(shaderTarget, last.before.structDeclRef) ) =>
        LET before == last.before.chain
            after == last.after.chain
            k == FirstSystemValue(before)
            rest == SubSeq(before, k + 1, Len(before))
        IN  IF k = 0 THEN after = before
            ELSE /\ \A j \in 1..(k - 1) : before[j] \notin Range(after)
                 /\ Len(rest) <= Len(after)
                 /\ SubSeq(after, Len(after) - Len(rest) + 1, Len(after)) = rest

(***************************************************************************)
(* C9: while a traversal runs, structDeclLevel is the number of structure  *)
(* declarations being visited (never negative, restored when a StructDecl  *)
(* has been visited) and isInsideEntryPoint is true exactly inside the     *)
(* entry-point function declaration; both are 0 / false before the         *)
(* traversal and when it ends.                                             *)
(***************************************************************************)
C9_ScopedContextNests ==
    pc # "error" =>
        /\ structDeclLevel >= 0
        /\ structDeclLevel = StructDeclsOpen
        /\ isInsideEntryPoint = InsideEntryPointDecl
        /\ pc \in { "program", "done" } => (structDeclLevel = 0 /\ ~isInsideEntryPoint)

C9_Witness ==
    /\ pc = "visit"
    /\ program.entryPointVisited
    /\ ~isInsideEntryPoint
    /\ structDeclLevel = 1
    /\ Len(stack) = 3
    /\ stack[2].kind = "FunctionDecl"

(***************************************************************************)
(* C10: an invalid Saturate call raises the error at that node and ends    *)
(* the traversal: the call keeps its Saturate tag and its arguments, no    *)
(* Visit* call stays in progress, and nothing is visited or changed        *)
(* afterwards.                                                             *)
(***************************************************************************)
C10_ErrorAbortsTraversal ==
    /\ [](pc = "error" =>
            /\ last.op = "FunctionCall"
            /\ last.what \in InvalidIntrinsicErrors
            /\ last.before.intrinsic = "Saturate"
            /\ last.after = last.before
            /\ stack = << >>)
    /\ [][pc = "error" => UNCHANGED vars]_vars

C10_Witness ==
    /\ pc = "error"
    /\ Len(last.before.arguments) = 1
    /\ last.before.arguments[1].typeDenoter.den = "Sampler"
    /\ structDeclLevel = 1
====
